---------------------------- MODULE Spec2Model ----------------------------
(***************************************************************************)
(* Model of scripts/generate-rss.mjs: the retrying fetch (envNumber,       *)
(* backoffDelayMs, withRetry), the pipeline of generateRss and main, and   *)
(* the feed transformer (escapeXml, buildRssFromHotArticles).              *)
(*                                                                         *)
(* Numbers.  The configuration values are JavaScript numbers read from the *)
(* environment and need not be integers.  A number that is a multiple of   *)
(* 0.5 is represented by the integer that is twice its value ("halves"):   *)
(* 3 is 6, 2.5 is 5, 0.5 is 1.  All arithmetic below is exact on these.    *)
(*                                                                         *)
(* Text.  A JavaScript string is a sequence of one-character strings.      *)
(***************************************************************************)
EXTENDS Integers, Sequences, FiniteSets, TLC

VARIABLES
    \* ---- backoffDelayMs applied to drawn inputs
    boAttempt,      \* attempt number n passed to backoffDelayMs
    boBase,         \* FETCH_RETRY_BASE_DELAY_MS, in halves
    boMax,          \* FETCH_RETRY_MAX_DELAY_MS, in halves
    boRandom,       \* the draw of Math.random(), in 1/RandomSteps
    boDelay,        \* the value returned, in halves (0 before the call)
    boCalled,       \* whether backoffDelayMs has returned
    \* ---- buildRssFromHotArticles applied to drawn inputs
    hotArticlesList, \* the article list handed to buildRssFromHotArticles
    rss,            \* the document it returned (NoValue before the call)
    \* ---- one run of main: the environment
    envMax,         \* process.env.FETCH_RETRY_MAX
    envBase,        \* process.env.FETCH_RETRY_BASE_DELAY_MS
    envMaxDelay,    \* process.env.FETCH_RETRY_MAX_DELAY_MS
    failK,          \* the remote side fails the first failK fetches
    file0,          \* the output file before the run: "absent" or "old"
    \* ---- one run of main: the program
    pc,             \* where the run stands
    attempts,       \* withRetry: const attempts (in halves)
    attempt,        \* withRetry: let attempt
    lastError,      \* withRetry: let lastError
    delay,          \* withRetry: const delay of the running sleep (in halves)
    retry,          \* withRetry: "idle", "running", "returned" or "thrown"
    retryValue,     \* withRetry: the value it threw
    html,           \* generateRss: const html
    iifeExpr,       \* generateRss: const iifeExpr
    nuxtData,       \* generateRss: const nuxtData
    file,           \* the output file: "absent", "old", "partial", "complete"
    exitCode,       \* process.exitCode
    stderr,         \* the error console.error reported (NoValue if none)
    \* ---- one run of main: what happened (history, read by the claims only)
    invocations,    \* how many times fn, the single-shot fetch, was invoked
    inFlight,       \* how many invocations of fn have not settled
    events,         \* withRetry's calls, failures, waits and success, in order
    raised,         \* the errors fn raised, in order
    stages          \* the stages of generateRss that ran, with their outcome

boVars   == <<boAttempt, boBase, boMax, boRandom, boDelay, boCalled>>
feedVars == <<hotArticlesList, rss>>
envVars  == <<envMax, envBase, envMaxDelay, failK, file0>>
runVars  == <<pc, attempts, attempt, lastError, delay, retry, retryValue,
              html, iifeExpr, nuxtData, file, exitCode, stderr>>
histVars == <<invocations, inFlight, events, raised, stages>>
mainVars == <<envVars, runVars, histVars>>
vars     == <<boVars, feedVars, mainVars>>

NoValue == [t |-> "none"]
Unset   == [t |-> "unset"]      \* an environment variable that is not set

\* ------------------------------------------------------------------ bounds
MaxAttemptN == 4      \* attempt numbers 1..MaxAttemptN given to backoffDelayMs
MaxBaseHalves == 5    \* base delays 0, 0.5, .. MaxBaseHalves/2 ms
MaxDelayHalves == 9   \* maximum delays 0, 0.5, .. MaxDelayHalves/2 ms
RandomSteps == 8      \* Math.random() is drawn from {0, 1/R, .. (R-1)/R}

\* ------------------------------------------------------- program constants
DefaultRetryMax == 3            \* envNumber("FETCH_RETRY_MAX", 3)
DefaultBaseDelayMs == 500       \* envNumber("FETCH_RETRY_BASE_DELAY_MS", 500)
DefaultMaxDelayMs == 8000       \* envNumber("FETCH_RETRY_MAX_DELAY_MS", 8000)

\* ----------------------------------------------------------------- numbers
Halves(n) == 2 * n                     \* the integer n as a number in halves
IsInteger(x) == x % 2 = 0              \* x (in halves) is a whole number
MathMin(a, b) == IF a <= b THEN a ELSE b
MathMax(a, b) == IF a >= b THEN a ELSE b

RECURSIVE Pow2(_)
Pow2(e) == IF e <= 0 THEN 1 ELSE 2 * Pow2(e - 1)

\* clamp(n, lo, hi) = Math.min(Math.max(n, lo), hi)
clamp(n, lo, hi) == MathMin(MathMax(n, lo), hi)

\* backoffDelayMs(attempt), with the attempt number n, the two configuration
\* values and the draw of Math.random() as parameters.  base and maxDelay
\* are in halves; random is r with Math.random() = r / R, R = RandomSteps.
\* The result is in halves.
\*   exp    = base * 2^(n-1)          (base/2 * 2^(n-1) with base in halves)
\*   jitter = exp * (0.5 + r/R)       = exp * (R + 2r) / (2R)
\*   Math.floor(jitter)               = (base * 2^(n-1) * (R + 2r)) div 4R
BackoffFloor(n, base, random) ==
    (base * Pow2(n - 1) * (RandomSteps + 2 * random)) \div (4 * RandomSteps)

backoffDelayMs(n, base, maxDelay, random) ==
    clamp(Halves(BackoffFloor(n, base, random)), 0, maxDelay)

\* ------------------------------------------------------ JavaScript values
Undefined == [t |-> "undefined"]
Null      == [t |-> "null"]
Str(s)    == [t |-> "string", v |-> s]
Num(n)    == [t |-> "number", v |-> n]
Bool(b)   == [t |-> "boolean", v |-> b]

\* a?.f : the property f of a, undefined when a is null or undefined (or a
\* primitive without that property)
Get(a, f) == IF a.t = "object" THEN a[f] ELSE Undefined

\* v ?? d
Coalesce(v, d) == IF v.t \in {"undefined", "null"} THEN d ELSE v

Digits == <<"0", "1", "2", "3", "4", "5", "6", "7", "8", "9">>

\* String(v), for the values the model draws (numbers are 0..9)
String(v) ==
    CASE v.t = "string"    -> v.v
      [] v.t = "number"    -> <<Digits[v.v + 1]>>
      [] v.t = "boolean"   -> IF v.v THEN <<"t", "r", "u", "e">>
                                     ELSE <<"f", "a", "l", "s", "e">>
      [] v.t = "null"      -> <<"n", "u", "l", "l">>
      [] v.t = "undefined" -> <<"u", "n", "d", "e", "f", "i", "n", "e", "d">>

\* the truthiness of v in a condition
Truthy(v) ==
    CASE v.t = "string"  -> v.v # <<>>
      [] v.t = "number"  -> v.v # 0
      [] v.t = "boolean" -> v.v
      [] v.t \in {"object", "array"} -> TRUE
      [] OTHER           -> FALSE

\* ---------------------------------------------------------------- escapeXml
Amp  == <<"&", "a", "m", "p", ";">>
Lt   == <<"&", "l", "t", ";">>
Gt   == <<"&", "g", "t", ";">>
Quot == <<"&", "q", "u", "o", "t", ";">>
Apos == <<"&", "a", "p", "o", "s", ";">>

\* text.replaceAll(ch, by), for a one-character pattern ch
RECURSIVE replaceAll(_, _, _)
replaceAll(text, ch, by) ==
    IF text = <<>> THEN <<>>
    ELSE (IF Head(text) = ch THEN by ELSE <<Head(text)>>)
             \o replaceAll(Tail(text), ch, by)

\* (a variant of escapeXml without the last replacement)
escapeXmlNoApos(s) ==
    replaceAll(replaceAll(replaceAll(replaceAll(
        String(Coalesce(s, Str(<<>>))),
        "&", Amp), "<", Lt), ">", Gt), "\"", Quot)

\* escapeXml(s): String(s ?? "") with the five replacements, in this order
escapeXml(s) ==
    replaceAll(replaceAll(replaceAll(replaceAll(replaceAll(
        String(Coalesce(s, Str(<<>>))),
        "&", Amp), "<", Lt), ">", Gt), "\"", Quot), "'", Apos)

\* -------------------------------------------------- buildRssFromHotArticles
\* The fixed fragments of the description; each is one symbol of the text.
MarkOriginal == "[yuanchuang]"     \* the marker pushed when is_original
MarkVideo    == "[shipin]"         \* the marker pushed when is_video_article
MarkAuthor   == "[zuozhe:]"        \* the prefix of the author fragment
Separator    == " | "

\* parts.join(" | ")
RECURSIVE join(_)
join(parts) ==
    IF parts = <<>> THEN <<>>
    ELSE IF Len(parts) = 1 THEN parts[1]
    ELSE parts[1] \o <<Separator>> \o join(Tail(parts))

\* The callback of hotArticlesList.map: the item built from record a.  The
\* item is kept as the texts the template interpolates:
\*   <title>title</title> <link>link</link>
\*   <guid isPermaLink="isPermaLink">guid</guid>
\*   <author>author</author>, or <author /> when authorTag is "selfClosing"
\*   <description><![CDATA[description]]></description>
\*   <enclosure url="enclosure[1]" type="image/jpeg" />, when enclosure # <<>>
buildItem(a) ==
    LET itemTitle == escapeXml(Coalesce(Get(a, "title"), Str(<<>>)))
        itemLink  == escapeXml(Coalesce(Get(a, "url"), Str(<<>>)))
        guidRaw   == IF itemLink # <<>> THEN itemLink
                     ELSE String(Coalesce(Get(a, "aid"), Str(<<>>)))
        guid      == escapeXml(Str(guidRaw))
        userInfo  == Get(a, "user_info")
        author    == escapeXml(Coalesce(Get(userInfo, "username"), Str(<<>>)))
        picPath   == Get(a, "pic_path")
        enclosure == IF Truthy(picPath) THEN <<escapeXml(picPath)>> ELSE <<>>
        descParts ==
            (IF Truthy(Get(a, "is_original")) THEN <<(<<MarkOriginal>>)>> ELSE <<>>)
            \o (IF Truthy(Get(a, "is_video_article")) THEN <<(<<MarkVideo>>)>> ELSE <<>>)
            \o (IF author # <<>> THEN <<(<<MarkAuthor>> \o author)>> ELSE <<>>)
    IN  [ title       |-> itemTitle,
          link        |-> itemLink,
          isPermaLink |-> IF itemLink # <<>> THEN "true" ELSE "false",
          guid        |-> guid,
          authorTag   |-> IF author # <<>> THEN "element" ELSE "selfClosing",
          author      |-> author,
          description |-> join(descParts),
          enclosure   |-> enclosure ]

\* (a variant of mapItems that filters the null records out first)
RECURSIVE mapItemsSkippingNull(_)
mapItemsSkippingNull(list) ==
    IF list = <<>> THEN <<>>
    ELSE (IF Head(list) = Null THEN <<>> ELSE <<buildItem(Head(list))>>)
             \o mapItemsSkippingNull(Tail(list))

\* hotArticlesList.map(callback): one item per record, in order
RECURSIVE mapItems(_)
mapItems(list) ==
    IF list = <<>> THEN <<>>
    ELSE <<buildItem(Head(list))>> \o mapItems(Tail(list))

\* The options generateRss passes (none of them holds a special character).
ChannelTitle       == <<"[huxiu - remen wenzhang(hotArticlesList)]">>
ChannelLink        == <<"https://m.huxiu.com/">>
ChannelDescription == <<"[cong huxiu yidongduan shouye __NUXT__ zhong tiqu de remen wenzhang liebiao]">>

\* buildRssFromHotArticles(hotArticlesList, opts): the channel texts and the
\* items, which the code joins with "\n" between the fixed channel lines.
buildRssFromHotArticles(list) ==
    [ t           |-> "rss",
      title       |-> escapeXml(Str(ChannelTitle)),
      link        |-> escapeXml(Str(ChannelLink)),
      description |-> escapeXml(Str(ChannelDescription)),
      items       |-> mapItems(list) ]

\* ---------------------------------- specification: buildRssFromHotArticles
MaxStrLen == 2        \* field texts have at most MaxStrLen characters
MaxListLen == 3       \* article lists have at most MaxListLen records

Alphabet == {"a", "&", "<", ">", "\"", "'"}
Special  == {"&", "<", ">", "\"", "'"}

RECURSIVE TextsOfLen(_)
TextsOfLen(n) ==
    IF n = 0 THEN {<<>>}
    ELSE {<<c>> \o s : c \in Alphabet, s \in TextsOfLen(n - 1)}

Texts == UNION {TextsOfLen(n) : n \in 0 .. MaxStrLen}

Article(title, url, aid, userInfo, picPath, isOriginal, isVideo) ==
    [ t |-> "object", title |-> title, url |-> url, aid |-> aid,
      user_info |-> userInfo, pic_path |-> picPath,
      is_original |-> isOriginal, is_video_article |-> isVideo ]

UserInfo(username) == [t |-> "object", username |-> username]

\* The lists of one record built around one text s: every field is absent
\* or holds s (the url may also be the empty text and the aid a number).
IsSingleArticleList(list) ==
    \E s \in Texts :
      \E title \in {Undefined, Str(s)},
         url \in {Undefined, Str(<<>>), Str(s)},
         aid \in {Undefined, Num(0), Str(s)},
         userInfo \in {Undefined, UserInfo(Undefined), UserInfo(Str(s))},
         picPath \in {Undefined, Str(s)},
         isOriginal \in {Undefined, Bool(TRUE)},
         isVideo \in {Bool(FALSE), Bool(TRUE)} :
        list = <<Article(title, url, aid, userInfo, picPath, isOriginal, isVideo)>>

\* A few records, among them null, for the lists of several records.
SampleArticles ==
    { Null,
      Article(Str(<<"a", "&">>), Str(<<"a">>), Num(1), UserInfo(Str(<<"<">>)),
              Undefined, Bool(TRUE), Undefined),
      Article(Str(<<"'">>), Undefined, Num(2), Undefined,
              Str(<<"\"">>), Undefined, Bool(TRUE)) }

RECURSIVE ListsOfLen(_)
ListsOfLen(n) ==
    IF n = 0 THEN {<<>>}
    ELSE {<<a>> \o l : a \in SampleArticles, l \in ListsOfLen(n - 1)}

SampleLists == UNION {ListsOfLen(n) : n \in 0 .. MaxListLen}

MainIdle ==
    /\ envMax = Unset /\ envBase = Unset /\ envMaxDelay = Unset
    /\ failK = 0 /\ file0 = "absent"
    /\ pc = "idle" /\ attempts = 0 /\ attempt = 0 /\ lastError = Undefined
    /\ delay = 0 /\ retry = "idle" /\ retryValue = Undefined
    /\ html = NoValue /\ iifeExpr = NoValue /\ nuxtData = NoValue
    /\ file = "absent" /\ exitCode = 0 /\ stderr = NoValue
    /\ invocations = 0 /\ inFlight = 0 /\ events = <<>> /\ raised = <<>>
    /\ stages = <<>>

FeedIdle == hotArticlesList = <<>> /\ rss = NoValue

BackoffIdle ==
    /\ boAttempt = 1 /\ boBase = 0 /\ boMax = 0 /\ boRandom = 0
    /\ boDelay = 0 /\ boCalled = FALSE

InitFeed ==
    /\ \/ IsSingleArticleList(hotArticlesList)
       \/ hotArticlesList \in SampleLists
    /\ rss = NoValue
    /\ BackoffIdle
    /\ MainIdle

CallBuildRss ==
    /\ rss = NoValue
    /\ rss' = buildRssFromHotArticles(hotArticlesList)
    /\ UNCHANGED <<hotArticlesList, boVars, mainVars>>

NextFeed == CallBuildRss

SpecFeed == InitFeed /\ [][NextFeed]_vars

\* --------------------------------------------- claims about the feed items
\* What an XML reader makes of an escaped text: the five entities decoded.
StartsWith(text, prefix) ==
    Len(text) >= Len(prefix) /\ SubSeq(text, 1, Len(prefix)) = prefix

Drop(text, n) == SubSeq(text, n + 1, Len(text))

RECURSIVE UnescapeXml(_)
UnescapeXml(text) ==
    IF text = <<>> THEN <<>>
    ELSE IF StartsWith(text, Amp)  THEN <<"&">>  \o UnescapeXml(Drop(text, Len(Amp)))
    ELSE IF StartsWith(text, Lt)   THEN <<"<">>  \o UnescapeXml(Drop(text, Len(Lt)))
    ELSE IF StartsWith(text, Gt)   THEN <<">">>  \o UnescapeXml(Drop(text, Len(Gt)))
    ELSE IF StartsWith(text, Quot) THEN <<"\"">> \o UnescapeXml(Drop(text, Len(Quot)))
    ELSE IF StartsWith(text, Apos) THEN <<"'">>  \o UnescapeXml(Drop(text, Len(Apos)))
    ELSE <<Head(text)>> \o UnescapeXml(Tail(text))

\* No <, >, " or ' stands in the text, and every & opens one of the entities.
NoneUnescaped(text) ==
    \A i \in 1 .. Len(text) :
        /\ text[i] \notin {"<", ">", "\"", "'"}
        /\ text[i] = "&" =>
              \E e \in {Amp, Lt, Gt, Quot, Apos} : StartsWith(Drop(text, i - 1), e)

Built == rss.t = "rss"

FieldText(a, f) == String(Coalesce(Get(a, f), Str(<<>>)))
UsernameText(a) == String(Coalesce(Get(Get(a, "user_info"), "username"), Str(<<>>)))

HasSpecial(text) == \E i \in 1 .. Len(text) : text[i] \in Special

\* C6: for every record, isPermaLink is "true" iff the record's link is
\* non-empty; the guid content is the link (the same text as the <link>
\* content) when the link is non-empty, otherwise the aid converted to text,
\* otherwise the empty text.
C6_GuidIsLinkOrAid ==
    Built =>
      \A i \in 1 .. Len(rss.items) :
        LET a    == hotArticlesList[i]
            item == rss.items[i]
            link == FieldText(a, "url")
        IN  /\ item.isPermaLink = "true" <=> link # <<>>
            /\ link # <<>> => item.guid = item.link
            /\ link = <<>> => UnescapeXml(item.guid) = FieldText(a, "aid")

\* C7: none of <, >, &, " and ' coming from a field value (title, url, aid,
\* user_info.username, pic_path) stands unescaped in the document outside
\* the description's CDATA block, in element content or in an attribute.
C7_NoRawSpecialOutsideCData ==
    Built =>
      /\ NoneUnescaped(rss.title) /\ NoneUnescaped(rss.link)
      /\ NoneUnescaped(rss.description)
      /\ \A i \in 1 .. Len(rss.items) :
           LET item == rss.items[i]
           IN  /\ NoneUnescaped(item.title)
               /\ NoneUnescaped(item.link)
               /\ NoneUnescaped(item.guid)
               /\ NoneUnescaped(item.author)
               /\ \A k \in 1 .. Len(item.enclosure) : NoneUnescaped(item.enclosure[k])

\* C7's case: a record whose title, url, username and picture path all hold
\* special characters has been rendered.
C7_Witness ==
    /\ Built
    /\ Len(hotArticlesList) = 1
    /\ HasSpecial(FieldText(hotArticlesList[1], "title"))
    /\ HasSpecial(FieldText(hotArticlesList[1], "url"))
    /\ HasSpecial(UsernameText(hotArticlesList[1]))
    /\ rss.items[1].enclosure # <<>>
    /\ HasSpecial(UnescapeXml(rss.items[1].enclosure[1]))

\* C8: a list of n records gives exactly n items, and the i-th item is the
\* one derived from the i-th record (its title, link, author and enclosure
\* read back as that record's fields): no reordering, dropping or
\* deduplication.
C8_ItemsFollowList ==
    Built =>
      /\ Len(rss.items) = Len(hotArticlesList)
      /\ \A i \in 1 .. Len(hotArticlesList) :
           i <= Len(rss.items) =>
             LET a    == hotArticlesList[i]
                 item == rss.items[i]
             IN  /\ UnescapeXml(item.title) = FieldText(a, "title")
                 /\ UnescapeXml(item.link) = FieldText(a, "url")
                 /\ UnescapeXml(item.author) = UsernameText(a)
                 /\ item.enclosure # <<>> <=> Truthy(Get(a, "pic_path"))

\* C8's case: a list of several records with a duplicate and a null record
\* has been rendered.
C8_Witness ==
    /\ Built
    /\ Len(hotArticlesList) = MaxListLen
    /\ hotArticlesList[1] = hotArticlesList[2]
    /\ hotArticlesList[1] # Null
    /\ hotArticlesList[MaxListLen] = Null

\* C9: the description is the " | "-joined sequence, in this order, of the
\* original marker when is_original is truthy, the video marker when
\* is_video_article is truthy, and the author fragment with the username's
\* original characters (not entity-escaped) when the username is non-empty.
C9_DescriptionHoldsRawUsername ==
    Built =>
      \A i \in 1 .. Len(rss.items) :
        LET a    == hotArticlesList[i]
            name == UsernameText(a)
        IN  rss.items[i].description =
              join( (IF Truthy(Get(a, "is_original")) THEN <<(<<MarkOriginal>>)>> ELSE <<>>)
                    \o (IF Truthy(Get(a, "is_video_article")) THEN <<(<<MarkVideo>>)>> ELSE <<>>)
                    \o (IF name # <<>> THEN <<(<<MarkAuthor>> \o name)>> ELSE <<>>) )

\* ---------------------------------------------------------------- envNumber
NaN == [t |-> "NaN"]

DigitValue(c) == CHOOSE d \in 0 .. 9 : Digits[d + 1] = c
IsDigit(c) == \E d \in 0 .. 9 : Digits[d + 1] = c

RECURSIVE DigitsValue(_)
DigitsValue(text) ==
    IF text = <<>> THEN 0
    ELSE 10 * DigitsValue(SubSeq(text, 1, Len(text) - 1)) + DigitValue(text[Len(text)])

\* Number(text) for an unsigned decimal text: digits, then nothing, ".0" or
\* ".5".  The result is in halves, or NaN for a text that is no number.
UnsignedNumber(text) ==
    LET dot == IF \E i \in 1 .. Len(text) : text[i] = "."
               THEN CHOOSE i \in 1 .. Len(text) :
                        text[i] = "." /\ \A j \in 1 .. (i - 1) : text[j] # "."
               ELSE Len(text) + 1
        whole == SubSeq(text, 1, dot - 1)
        frac  == SubSeq(text, dot + 1, Len(text))
    IN  IF whole = <<>> \/ \E i \in 1 .. Len(whole) : ~IsDigit(whole[i]) THEN NaN
        ELSE IF dot > Len(text) \/ frac = <<"0">> THEN Num(Halves(DigitsValue(whole)))
        ELSE IF frac = <<"5">> THEN Num(Halves(DigitsValue(whole)) + 1)
        ELSE NaN

\* Number(text), for a non-empty text
Number(text) ==
    IF Head(text) = "-"
    THEN LET u == UnsignedNumber(Tail(text))
         IN  IF u = NaN THEN NaN ELSE Num(0 - u.v)
    ELSE UnsignedNumber(text)

\* envNumber(name, fallback), raw being process.env[name]
envNumber(raw, fallback) ==
    IF raw = Unset \/ raw = Str(<<>>) THEN fallback
    ELSE LET n == Number(raw.v)
         IN  IF n # NaN THEN n.v ELSE fallback

FETCH_RETRY_MAX           == envNumber(envMax, Halves(DefaultRetryMax))
FETCH_RETRY_BASE_DELAY_MS == envNumber(envBase, Halves(DefaultBaseDelayMs))
FETCH_RETRY_MAX_DELAY_MS  == envNumber(envMaxDelay, Halves(DefaultMaxDelayMs))

\* ---------------------------------------------------------------- withRetry
\* (a variant of Attempts that does not raise the ceiling to 1)
AttemptsUnclamped(maxAttempts) == maxAttempts

\* const attempts = Math.max(1, maxAttempts ?? 1); maxAttempts is a number here
Attempts(maxAttempts) == MathMax(Halves(1), maxAttempts)

\* (a variant of CatchError that keeps the first failure)
CatchFirstError(previous, err) == IF previous = Undefined THEN err ELSE previous

\* catch (err) { lastError = err; ... }: the new value of lastError
CatchError(previous, err) == err

\* The head of the for loop with the counter at n: when n <= attempts, fn is
\* invoked (the single-shot fetch is issued); otherwise the loop is left and
\* lastError is thrown, which rejects generateRss and main, whose catch
\* handler reports it and sets the exit code.
Fail(err) ==
    /\ pc' = "exited"
    /\ exitCode' = 1
    /\ stderr' = err

ForLoop(n) ==
    /\ attempt' = n
    /\ IF Halves(n) <= attempts'
       THEN /\ pc' = "fetching"
            /\ invocations' = invocations + 1
            /\ inFlight' = inFlight + 1
            /\ events' = Append(events, [e |-> "call", n |-> n])
            /\ retry' = "running"
            /\ UNCHANGED <<retryValue, exitCode, stderr>>
       ELSE /\ retry' = "thrown"
            /\ retryValue' = lastError
            /\ Fail(lastError)
            /\ UNCHANGED <<invocations, inFlight, events>>

\* -------------------------------------------------------- the fetched page
\* A page is what the pattern of extractNuxtExpression finds in it (script:
\* the captured expression, or NoValue when the pattern does not match); an
\* expression is what running it in the sandbox does (it throws, it exceeds
\* the timeout, or it leaves a value in window.__NUXT__).
Array(elements) == [t |-> "array", v |-> elements]
Expression(outcome, value) == [t |-> "expression", outcome |-> outcome, value |-> value]
Page(script) == [t |-> "html", script |-> script]
NuxtWithData(data) == [t |-> "object", data |-> data]
FirstWithList(list) == [t |-> "object", hotArticlesList |-> list]

PageLists == ListsOfLen(0) \cup ListsOfLen(1)

Pages ==
    { Page(NoValue),
      Page(Expression("throws", Undefined)),
      Page(Expression("timeout", Undefined)),
      Page(Expression("value", Undefined)),
      Page(Expression("value", NuxtWithData(Undefined))),
      Page(Expression("value", NuxtWithData(Array(<<>>)))),
      Page(Expression("value", NuxtWithData(Array(<<FirstWithList(Str(<<"a">>))>>)))) }
    \cup { Page(Expression("value", NuxtWithData(Array(<<FirstWithList(Array(l))>>)))) :
             l \in PageLists }

Error(kind, cause, id) == [t |-> "error", kind |-> kind, cause |-> cause, id |-> id]

\* ------------------------------------------------------ specification: main
MaxRetryEnv == 3      \* FETCH_RETRY_MAX is set to at most MaxRetryEnv.5
MaxFailures == 3      \* the remote side fails at most the first MaxFailures fetches

EnvMaxValues ==
    { Unset, Str(<<>>), Str(<<"a", "b", "c">>), Str(<<"-", "1">>) }
    \cup { Str(<<Digits[d + 1]>>) : d \in 0 .. MaxRetryEnv }
    \cup { Str(<<Digits[d + 1], ".", "5">>) : d \in 0 .. MaxRetryEnv }

Init ==
    /\ envMax \in EnvMaxValues
    /\ envBase \in {Unset, Str(<<"2">>)}
    /\ envMaxDelay \in {Unset, Str(<<"2", ".", "5">>)}
    /\ failK \in 0 .. MaxFailures
    /\ file0 \in {"absent", "old"}
    /\ pc = "main" /\ attempts = 0 /\ attempt = 0 /\ lastError = Undefined
    /\ delay = 0 /\ retry = "idle" /\ retryValue = Undefined
    /\ html = NoValue /\ iifeExpr = NoValue /\ nuxtData = NoValue
    /\ file = file0 /\ exitCode = 0 /\ stderr = NoValue
    /\ invocations = 0 /\ inFlight = 0 /\ events = <<>> /\ raised = <<>>
    /\ stages = <<>>
    /\ FeedIdle
    /\ BackoffIdle

Stage(name, ok) == [stage |-> name, ok |-> ok]

\* main calls generateRss, which calls fetchHtmlWithRetry and so withRetry:
\* attempts is computed and the loop is entered with attempt = 1.
Start ==
    /\ pc = "main"
    /\ attempts' = Attempts(FETCH_RETRY_MAX)
    /\ ForLoop(1)
    /\ UNCHANGED <<lastError, delay, html, iifeExpr, nuxtData, file, raised, stages>>
    /\ UNCHANGED <<envVars, boVars, feedVars>>

\* fn rejects (fetch rejects, or the status is not ok and fetchHtml throws):
\* the catch block of withRetry runs, up to the break or the call of sleep.
FetchFails ==
    /\ pc = "fetching"
    /\ invocations <= failK
    /\ \E cause \in {"status", "transport"} :
         LET err == Error("NetworkError", cause, invocations)
         IN  /\ raised' = Append(raised, err)
             /\ lastError' = CatchError(lastError, err)
             /\ stages' = Append(stages, Stage("fetch", FALSE))
             /\ inFlight' = inFlight - 1
             /\ IF Halves(attempt) >= attempts
                THEN /\ events' = Append(events, [e |-> "fail", n |-> attempt])
                     /\ retry' = "thrown"
                     /\ retryValue' = lastError'
                     /\ Fail(lastError')
                     /\ UNCHANGED delay
                ELSE /\ \E random \in 0 .. (RandomSteps - 1) :
                          delay' = backoffDelayMs(attempt, FETCH_RETRY_BASE_DELAY_MS,
                                                  FETCH_RETRY_MAX_DELAY_MS, random)
                     /\ events' = events \o <<[e |-> "fail", n |-> attempt],
                                              [e |-> "wait", n |-> attempt]>>
                     /\ pc' = "sleeping"
                     /\ UNCHANGED <<retry, retryValue, exitCode, stderr>>
    /\ UNCHANGED <<attempts, attempt, html, iifeExpr, nuxtData, file, invocations>>
    /\ UNCHANGED <<envVars, boVars, feedVars>>

\* the timer of sleep(delay) fires: attempt += 1 and the loop head runs
Wake ==
    /\ pc = "sleeping"
    /\ UNCHANGED attempts
    /\ ForLoop(attempt + 1)
    /\ UNCHANGED <<lastError, delay, html, iifeExpr, nuxtData, file, raised, stages>>
    /\ UNCHANGED <<envVars, boVars, feedVars>>

\* fn resolves with the text of the page: withRetry returns it
FetchSucceeds ==
    /\ pc = "fetching"
    /\ invocations > failK
    /\ \E page \in Pages : html' = page
    /\ inFlight' = inFlight - 1
    /\ events' = Append(events, [e |-> "ok", n |-> attempt])
    /\ stages' = Append(stages, Stage("fetch", TRUE))
    /\ retry' = "returned"
    /\ pc' = "extract"
    /\ UNCHANGED <<attempts, attempt, lastError, delay, retryValue, iifeExpr,
                   nuxtData, file, exitCode, stderr, invocations, raised>>
    /\ UNCHANGED <<envVars, boVars, feedVars>>

\* (a variant of Extract in which a page without the pattern is retried like
\* a failed fetch)
ExtractInsideRetry ==
    /\ pc = "extract"
    /\ IF html.script = NoValue
       THEN /\ stages' = Append(stages, Stage("extract", FALSE))
            /\ pc' = "sleeping"
            /\ UNCHANGED <<iifeExpr, exitCode, stderr>>
       ELSE /\ stages' = Append(stages, Stage("extract", TRUE))
            /\ iifeExpr' = html.script
            /\ pc' = "eval"
            /\ UNCHANGED <<exitCode, stderr>>
    /\ UNCHANGED <<attempts, attempt, lastError, delay, retry, retryValue, html,
                   nuxtData, file, invocations, inFlight, events, raised>>
    /\ UNCHANGED <<envVars, boVars, feedVars>>

\* const iifeExpr = extractNuxtExpression(html)
Extract ==
    /\ pc = "extract"
    /\ IF html.script = NoValue
       THEN /\ stages' = Append(stages, Stage("extract", FALSE))
            /\ Fail(Error("ExtractionError", "not found", 0))
            /\ UNCHANGED iifeExpr
       ELSE /\ stages' = Append(stages, Stage("extract", TRUE))
            /\ iifeExpr' = html.script
            /\ pc' = "eval"
            /\ UNCHANGED <<exitCode, stderr>>
    /\ UNCHANGED <<attempts, attempt, lastError, delay, retry, retryValue, html,
                   nuxtData, file, invocations, inFlight, events, raised>>
    /\ UNCHANGED <<envVars, boVars, feedVars>>

\* const nuxtData = evalNuxtExpression(iifeExpr)
Eval ==
    /\ pc = "eval"
    /\ IF iifeExpr.outcome # "value"
       THEN /\ stages' = Append(stages, Stage("eval", FALSE))
            /\ Fail(Error("SandboxError", iifeExpr.outcome, 0))
            /\ UNCHANGED nuxtData
       ELSE IF ~Truthy(iifeExpr.value)
       THEN /\ stages' = Append(stages, Stage("eval", FALSE))
            /\ Fail(Error("SandboxError", "no result", 0))
            /\ UNCHANGED nuxtData
       ELSE /\ stages' = Append(stages, Stage("eval", TRUE))
            /\ nuxtData' = iifeExpr.value
            /\ pc' = "locate"
            /\ UNCHANGED <<exitCode, stderr>>
    /\ UNCHANGED <<attempts, attempt, lastError, delay, retry, retryValue, html,
                   iifeExpr, file, invocations, inFlight, events, raised>>
    /\ UNCHANGED <<envVars, boVars, feedVars>>

\* data, first and hotArticlesList of generateRss, and its check of the list
Locate ==
    /\ pc = "locate"
    /\ LET data  == Get(nuxtData, "data")
           first == IF data.t = "array"
                    THEN (IF data.v = <<>> THEN Undefined ELSE data.v[1])
                    ELSE Undefined
           list  == Get(first, "hotArticlesList")
       IN  IF list.t # "array"
           THEN /\ stages' = Append(stages, Stage("locate", FALSE))
                /\ Fail(Error("StructureError", "no list", 0))
                /\ UNCHANGED hotArticlesList
           ELSE /\ stages' = Append(stages, Stage("locate", TRUE))
                /\ hotArticlesList' = list.v
                /\ pc' = "build"
                /\ UNCHANGED <<exitCode, stderr>>
    /\ UNCHANGED <<attempts, attempt, lastError, delay, retry, retryValue, html,
                   iifeExpr, nuxtData, file, invocations, inFlight, events, raised>>
    /\ UNCHANGED <<envVars, boVars, rss>>

\* return buildRssFromHotArticles(hotArticlesList, {...}); main goes on to
\* fs.mkdir
Build ==
    /\ pc = "build"
    /\ rss' = buildRssFromHotArticles(hotArticlesList)
    /\ stages' = Append(stages, Stage("build", TRUE))
    /\ pc' = "mkdir"
    /\ UNCHANGED <<attempts, attempt, lastError, delay, retry, retryValue, html,
                   iifeExpr, nuxtData, file, exitCode, stderr, invocations,
                   inFlight, events, raised>>
    /\ UNCHANGED <<envVars, boVars, hotArticlesList>>

\* await fs.mkdir(path.dirname(absOut), { recursive: true }) settles
Mkdir ==
    /\ pc = "mkdir"
    /\ \/ /\ pc' = "write"
          /\ UNCHANGED <<exitCode, stderr>>
       \/ Fail(Error("FilesystemError", "mkdir", 0))
    /\ UNCHANGED <<attempts, attempt, lastError, delay, retry, retryValue, html,
                   iifeExpr, nuxtData, file>>
    /\ UNCHANGED <<envVars, boVars, feedVars, histVars>>

\* await fs.writeFile(absOut, rss, "utf-8") settles.  writeFile opens the path
\* with flag "w" (create, or truncate what is there), writes the data and
\* closes: it fails before the file is opened (the file is as it was), or
\* after it (the file is there, empty or holding a part of the data), or it
\* succeeds, and main logs the line and returns.
WriteFile ==
    /\ pc = "write"
    /\ \/ /\ Fail(Error("FilesystemError", "open", 0))
          /\ UNCHANGED file
       \/ /\ Fail(Error("FilesystemError", "write", 0))
          /\ file' = "partial"
       \/ /\ file' = "complete"
          /\ pc' = "exited"
          /\ UNCHANGED <<exitCode, stderr>>
    /\ UNCHANGED <<attempts, attempt, lastError, delay, retry, retryValue, html,
                   iifeExpr, nuxtData>>
    /\ UNCHANGED <<envVars, boVars, feedVars, histVars>>

Next ==
    \/ Start
    \/ FetchFails
    \/ Wake
    \/ FetchSucceeds
    \/ Extract
    \/ Eval
    \/ Locate
    \/ Build
    \/ Mkdir
    \/ WriteFile

Spec == Init /\ [][Next]_vars

\* ------------------------------------------------- claims about one run
Settled == retry \in {"returned", "thrown"}

Waits == {i \in 1 .. Len(events) : events[i].e = "wait"}

Last(seq) == seq[Len(seq)]

\* C1 as stated: with fn failing exactly k times and then succeeding, and
\* for every configured ceiling: if ceiling >= k+1 the call succeeds and fn
\* was invoked exactly k+1 times; if ceiling <= k the call fails and fn was
\* invoked exactly ceiling times (ceilings of 0 or below included).
C1_InvocationsByCeiling ==
    Settled =>
      /\ FETCH_RETRY_MAX >= Halves(failK + 1) =>
            retry = "returned" /\ invocations = failK + 1
      /\ FETCH_RETRY_MAX <= Halves(failK) =>
            retry = "thrown" /\ Halves(invocations) = FETCH_RETRY_MAX

\* C1 amended: with e the larger of 1 and the configured ceiling: if
\* e >= k+1 the call succeeds and fn was invoked exactly k+1 times; if
\* e < k+1 the call fails and fn was invoked exactly floor(e) times.
C1_InvocationsByEffectiveCeiling ==
    Settled =>
      LET e == IF FETCH_RETRY_MAX < 2 THEN 2 ELSE FETCH_RETRY_MAX
      IN  /\ e >= Halves(failK + 1) =>
                retry = "returned" /\ invocations = failK + 1
          /\ e < Halves(failK + 1) =>
                retry = "thrown" /\ invocations = e \div 2

\* C1's case: the ceiling is 0 or below, fn fails and the call has failed.
C1_Witness ==
    /\ retry = "thrown"
    /\ FETCH_RETRY_MAX <= 0
    /\ failK >= 1
    /\ invocations = 1

\* C2: when every attempt fails, the caller receives exactly the failure
\* the last attempt raised (not an earlier one, not a wrapped or replaced
\* value), and the call never returns normally.
C2_LastFailurePropagated ==
    /\ retry = "thrown" =>
          /\ raised # <<>>
          /\ retryValue = Last(raised)
          /\ stderr = Last(raised)
    /\ (Settled /\ Len(raised) = invocations) => retry = "thrown"

\* C2's case: several attempts failed, each with its own failure, and the
\* call has failed.
C2_Witness ==
    /\ retry = "thrown"
    /\ Len(raised) >= 2
    /\ raised[1] # Last(raised)

StageOrder == <<"fetch", "extract", "eval", "locate", "build">>
StageIndex(name) == CHOOSE i \in 1 .. Len(StageOrder) : StageOrder[i] = name
StageError ==
    [extract |-> "ExtractionError", eval |-> "SandboxError", locate |-> "StructureError"]

\* C4: only a fetch failure leads to another fetch; once a fetch has
\* succeeded, a failure in extraction, evaluation or list location aborts
\* the run at its first occurrence: no further fetch is issued, no later
\* stage runs, and the run ends in failure with that stage's error.
C4_OnlyFetchIsRetried ==
    /\ \A i \in 1 .. Len(stages) :
         LET s == stages[i]
         IN  /\ (s.stage = "fetch" /\ i > 1) => stages[i - 1] = Stage("fetch", FALSE)
             /\ s.stage # "fetch" =>
                   /\ i > 1
                   /\ stages[i - 1] = Stage(StageOrder[StageIndex(s.stage) - 1], TRUE)
             /\ (s.stage # "fetch" /\ ~s.ok) =>
                   /\ i = Len(stages)
                   /\ pc = "exited"
                   /\ exitCode # 0
                   /\ stderr # NoValue
                   /\ stderr.kind = StageError[s.stage]
                   /\ rss = NoValue
                   /\ file = file0
    /\ (\E i \in 1 .. Len(stages) : stages[i] = Stage("fetch", TRUE)) =>
          /\ pc # "fetching" /\ pc # "sleeping"
          /\ invocations = Cardinality({i \in 1 .. Len(stages) : stages[i].stage = "fetch"})

\* C4's case: a fetch failed and was retried, the next one succeeded, and
\* the evaluation of the page then failed.
C4_Witness ==
    /\ pc = "exited"
    /\ invocations >= 2
    /\ stages # <<>>
    /\ Last(stages) = Stage("eval", FALSE)

\* C5: in every run that ends in failure of any kind the output file is
\* neither created nor modified and the exit status is non-zero; the file
\* holds the complete document exactly in the runs that end in success.
C5_AllOrNothing ==
    pc = "exited" =>
      /\ stderr # NoValue => (file = file0 /\ exitCode # 0)
      /\ file = "complete" <=> stderr = NoValue

\* C10: attempts are strictly sequential (at most one fn in flight); each
\* failed attempt n that is not the last is followed by exactly one wait,
\* whose delay is the backoff computed for n; no wait follows a success or
\* the final failing attempt; so the waits number the invocations minus one.
C10_OneWaitBetweenAttempts ==
    /\ inFlight <= 1
    /\ \A i \in 1 .. Len(events) :
         /\ events[i].e = "call" =>
               \/ i = 1 /\ events[i].n = 1
               \/ i > 1 /\ events[i - 1] = [e |-> "wait", n |-> events[i].n - 1]
         /\ events[i].e = "wait" =>
               /\ i > 1 /\ events[i - 1] = [e |-> "fail", n |-> events[i].n]
               /\ i = Len(events) => pc = "sleeping"
               /\ i < Len(events) => events[i + 1] = [e |-> "call", n |-> events[i].n + 1]
         /\ events[i].e = "ok" => i = Len(events)
    /\ pc = "sleeping" =>
          \E random \in 0 .. (RandomSteps - 1) :
              delay = backoffDelayMs(Last(events).n, FETCH_RETRY_BASE_DELAY_MS,
                                     FETCH_RETRY_MAX_DELAY_MS, random)
    /\ Settled => Cardinality(Waits) = invocations - 1

\* ------------------------------------------- specification: backoffDelayMs
BaseDelays == (0 .. MaxBaseHalves) \cup {Halves(DefaultBaseDelayMs)}
MaxDelays  == (0 .. MaxDelayHalves) \cup {Halves(DefaultMaxDelayMs)}

InitBackoff ==
    /\ boAttempt \in 1 .. MaxAttemptN
    /\ boBase \in BaseDelays
    /\ boMax \in MaxDelays
    /\ boRandom \in 0 .. (RandomSteps - 1)
    /\ boDelay = 0
    /\ boCalled = FALSE
    /\ FeedIdle
    /\ MainIdle

CallBackoff ==
    /\ ~boCalled
    /\ boCalled' = TRUE
    /\ boDelay' = backoffDelayMs(boAttempt, boBase, boMax, boRandom)
    /\ UNCHANGED <<boAttempt, boBase, boMax, boRandom, feedVars, mainVars>>

NextBackoff == CallBackoff

SpecBackoff == InitBackoff /\ [][NextBackoff]_vars

\* C3: for every attempt n >= 1, every non-negative base and maximum delay
\* and every jitter draw, backoffDelayMs(n) is an integer d with
\* 0 <= d <= max delay and d <= 1.5 * base * 2^(n-1).
\* (d <= 1.5 * (base/2) * 2^(n-1), with d in halves: 2d <= 3 * base * 2^(n-1).)
C3_DelayIntegerInRange ==
    boCalled =>
        /\ IsInteger(boDelay)
        /\ 0 <= boDelay /\ boDelay <= boMax
        /\ 2 * boDelay <= 3 * boBase * Pow2(boAttempt - 1)

=============================================================================
